---- MODULE Spec2Model ----
(***************************************************************************)
(* A model of amano's Table facade (src/amano/table.py): put, update, get  *)
(* and query over one bound Item class, the update expression rendered     *)
(* from an item's change log, and the index resolution of a key condition; *)
(* and of AttributeType.from_python_type (src/amano/base_attribute.py).    *)
(* Item, Condition, Index, Cursor and the error classes live in modules    *)
(* that are imported by table.py; they are modelled from their described   *)
(* behaviour and from the way table.py and the tests use them.             *)
(***************************************************************************)
EXTENDS Integers, Sequences, FiniteSets, TLC

VARIABLES
    indexes,    \* Table._indexes: the indexes, in declaration order
    item,       \* the Item instance the caller holds
    op,         \* the last operation called
    args,       \* its arguments
    pre,        \* the item as it was when the operation was called
    request,    \* the call made to the store client during it, or NoRequest
    response,   \* what the store client answered, or NoResponse
    result      \* what the operation returned or raised

vars == <<indexes, item, op, args, pre, request, response, result>>

\* The longest change log the model lets an item accumulate.
MaxLog == 2

None == "None"

------------------------------------------------------------------------------
(* The bound Item class and the table                                       *)

\* Track, the item class of the tests, with one more attribute.
Attributes == <<"artist_name", "track_name", "album_name", "genre_name", "ORIGIN">>

AttributeNames == {Attributes[i] : i \in 1..Len(Attributes)}

Values == {"v1", "v2"}

\* The writes the caller makes: attribute and value; None clears it.
Writes ==
    {<<"album_name", "v1">>, <<"album_name", "v2">>, <<"album_name", None>>,
     <<"genre_name", "v1">>, <<"genre_name", None>>}

_PRIMARY_KEY_NAME == "#"

TableName == "tracks"

Index(name, partition_key, sort_key) ==
    [name |-> name, partition_key |-> partition_key, sort_key |-> sort_key]

\* The index sets a table is constructed with: the primary index first.
ExampleIndexes ==
    << Index(_PRIMARY_KEY_NAME, "artist_name", "track_name"),
       Index("GenreAlbum", "genre_name", "album_name"),
       Index("AlbumTrack", "album_name", "track_name"),
       Index("ArtistAlbum", "artist_name", "album_name") >>

MirroredIndexes ==
    << Index(_PRIMARY_KEY_NAME, "artist_name", "track_name"),
       Index("TrackAlbum", "track_name", "album_name"),
       Index("AlbumTrack", "album_name", "track_name"),
       Index("AlbumGenre", "album_name", "genre_name"),
       Index("AlbumGenre2", "album_name", "genre_name"),
       Index("Origin", "ORIGIN", None) >>

PartitionOnlyIndexes ==
    << Index(_PRIMARY_KEY_NAME, "artist_name", None),
       Index("TrackArtist", "track_name", "artist_name"),
       Index("Genre", "genre_name", None),
       Index("GenreOrigin", "genre_name", "ORIGIN") >>

IndexConfigs == {ExampleIndexes, MirroredIndexes, PartitionOnlyIndexes}

IndexNames == {indexes[i].name : i \in 1..Len(indexes)}

IndexNamed(name) ==
    indexes[CHOOSE i \in 1..Len(indexes) : indexes[i].name = name]

primary_key == IndexNamed(_PRIMARY_KEY_NAME)

partition_key == primary_key.partition_key

sort_key == primary_key.sort_key

------------------------------------------------------------------------------
(* Item: persistence state and change log                                   *)

StateNEW == "new"
StateCLEAN == "clean"
StateDIRTY == "dirty"

ChangeSET == "SET"
ChangeCHANGE == "CHANGE"
ChangeUNSET == "UNSET"

AttributeChange(attribute, type, value) ==
    [attribute |-> attribute, type |-> type, value |-> value]

\* The Item class the table is bound to, and another Item class with the
\* same attributes.
_item_class == "Track"

OtherItemClass == "Album"

\* An item of the bound class constructed by the caller: NEW, nothing logged
\* yet.
NewItem(values) ==
    [class |-> _item_class, tag |-> StateNEW, log |-> <<>>, values |-> values]

\* An item of the other class constructed by the caller.
NewOtherItem(values) == [NewItem(values) EXCEPT !.class = OtherItemClass]

\* An item materialised from a store row: CLEAN lineage, empty log.
hydrate(values) ==
    [class |-> _item_class, tag |-> StateCLEAN, log |-> <<>>, values |-> values]

isinstance(it, item_class) == it.class = item_class

\* NEW until committed; afterwards CLEAN with an empty log, DIRTY otherwise.
_state(it) ==
    IF it.tag = StateNEW THEN StateNEW
    ELSE IF it.log = <<>> THEN StateCLEAN
    ELSE StateDIRTY

_commit(it) == [it EXCEPT !.tag = StateCLEAN, !.log = <<>>]

\* The kind of change a write of value to attribute records.
ChangeTypeOf(it, attribute, value) ==
    IF value = None THEN ChangeUNSET
    ELSE IF it.values[attribute] = None THEN ChangeSET
    ELSE ChangeCHANGE

\* A write appends its change to the log.
AppendChange(it, attribute, value) ==
    [it EXCEPT !.values[attribute] = value,
               !.log = Append(@, AttributeChange(attribute,
                                  ChangeTypeOf(it, attribute, value), value))]

\* A write replaces the pending change of the same attribute, if any.
ReplaceChange(it, attribute, value) ==
    LET others == SelectSeq(it.log, LAMBDA c : c.attribute # attribute)
    IN  [it EXCEPT !.values[attribute] = value,
                   !.log = Append(others, AttributeChange(attribute,
                                  ChangeTypeOf(it, attribute, value), value))]

------------------------------------------------------------------------------
(* Wire values                                                              *)

\* TypeSerializer().serialize of a string or of None.
_serialize_value(value) ==
    IF value = None THEN [tag |-> "NULL", val |-> "True"]
    ELSE [tag |-> "S", val |-> value]

\* _serialize_item(mapping)["M"]: every value of the mapping tagged.
_serialize_item(mapping) ==
    [k \in DOMAIN mapping |-> _serialize_value(mapping[k])]

\* Attribute.extract of a string attribute.
extract(value) == _serialize_value(value)

\* Item.extract: the full item as a wire mapping.
ItemExtract(it) == [a \in AttributeNames |-> extract(it.values[a])]

------------------------------------------------------------------------------
(* Condition: expressions over attributes, rendered with :name placeholders *)

\* The characters of each attribute name, as they are inlined in expressions.
Chars(name) ==
    CASE name = "artist_name" -> <<"a", "r", "t", "i", "s", "t", "_", "n", "a", "m", "e">>
      [] name = "track_name" -> <<"t", "r", "a", "c", "k", "_", "n", "a", "m", "e">>
      [] name = "album_name" -> <<"a", "l", "b", "u", "m", "_", "n", "a", "m", "e">>
      [] name = "genre_name" -> <<"g", "e", "n", "r", "e", "_", "n", "a", "m", "e">>
      [] name = "ORIGIN" -> <<"O", "R", "I", "G", "I", "N">>

CONDITION_LOGICAL_OR == <<"O", "R">>

CONDITION_LOGICAL_AND == <<"A", "N", "D">>

CONDITION_FUNCTION_CONTAINS == <<"c", "o", "n", "t", "a", "i", "n", "s">>

CONDITION_FUNCTION_BEGINS_WITH == <<"b", "e", "g", "i", "n", "s", "_", "w", "i", "t", "h">>

CONDITION_FUNCTION_NOT_EXISTS == <<"a", "t", "t", "r", "i", "b", "u", "t", "e", "_", "n", "o", "t", "_", "e", "x", "i", "s", "t", "s">>

\* One comparison or function call of a condition, and how it is joined to
\* what precedes it ("" for the first part, "AND" or "OR" afterwards).
Part(join, operator, attribute, value) ==
    [join |-> join, op |-> operator, attribute |-> attribute, value |-> value]

\* No condition given (None).
NoCondition == <<>>

\* ":" + name, the placeholder of an attribute's value.
Placeholder(name) == ":" \o name

\* name = :name, begins_with(name, :name), contains(name, :name),
\* attribute_not_exists(name)
PartStr(part) ==
    LET name == Chars(part.attribute)
        call(function) ==
            function \o <<"(">> \o name \o <<",", " ", ":">> \o name \o <<")">>
    IN  CASE part.op = "=" -> name \o <<" ", "=", " ", ":">> \o name
          [] part.op = "begins_with" -> call(CONDITION_FUNCTION_BEGINS_WITH)
          [] part.op = "contains" -> call(CONDITION_FUNCTION_CONTAINS)
          [] part.op = "not_exists" ->
                CONDITION_FUNCTION_NOT_EXISTS \o <<"(">> \o name \o <<")">>

JoinStr(join) ==
    CASE join = "" -> <<>>
      [] join = "AND" -> <<" ">> \o CONDITION_LOGICAL_AND \o <<" ">>
      [] join = "OR" -> <<" ">> \o CONDITION_LOGICAL_OR \o <<" ">>

\* str(condition): the parts rendered and joined, left to right.
RECURSIVE ConditionStr(_)
ConditionStr(condition) ==
    IF condition = <<>> THEN <<>>
    ELSE LET n == Len(condition)
         IN  ConditionStr(SubSeq(condition, 1, n - 1))
                \o JoinStr(condition[n].join) \o PartStr(condition[n])

\* condition.attributes: the attributes referenced, in order of first use.
ConditionAttributes(condition) ==
    LET first(i) == \A j \in 1..(i - 1) :
                        condition[j].attribute # condition[i].attribute
        RECURSIVE upto(_)
        upto(i) == IF i = 0 THEN <<>>
                   ELSE IF first(i)
                        THEN Append(upto(i - 1), condition[i].attribute)
                        ELSE upto(i - 1)
    IN  upto(Len(condition))

\* condition.values: placeholder -> value, of the parts that take a value;
\* a later part of the same attribute overwrites an earlier one.
ConditionValues(condition) ==
    LET valued == {i \in 1..Len(condition) : condition[i].op # "not_exists"}
        last(name) == CHOOSE i \in valued :
                        /\ condition[i].attribute = name
                        /\ \A j \in valued : condition[j].attribute = name => j <= i
    IN  [k \in {Placeholder(condition[i].attribute) : i \in valued} |->
            LET name == CHOOSE a \in AttributeNames : Placeholder(a) = k
            IN  _serialize_value(condition[last(name)].value)]

\* `needle in haystack` of two strings.
In(needle, haystack) ==
    \E i \in 0..(Len(haystack) - Len(needle)) :
        SubSeq(haystack, i + 1, i + Len(needle)) = needle

------------------------------------------------------------------------------
(* Store client: requests and responses                                     *)

NoRequest == [kind |-> "none"]

\* Nothing returned or raised (yet).
NoResult == [kind |-> "none"]

NoResponse == [kind |-> "none"]

\* The client returned a response with this HTTP status.
Responded(status) == [kind |-> "response", status |-> status]

\* The client raised ClientError with this error code: the store's rejection.
ClientError(code) == [kind |-> "ClientError", code |-> code]

\* The client raised ParamValidationError: the call was refused pre-flight.
ParamValidationError == [kind |-> "ParamValidationError"]

\* What a write can be answered with. The condition check can only fail
\* when a condition was sent.
WriteResponses(conditional) ==
    {Responded(200), Responded(202), ClientError("ValidationException"),
     ParamValidationError}
        \cup (IF conditional
              THEN {ClientError("ConditionalCheckFailedException")}
              ELSE {})

\* What an operation does: what it returns or raises, the item afterwards,
\* and the call it made to the store client.
Return(value) == [kind |-> "return", value |-> value]

Raise(error) == [kind |-> "raise", error |-> error]

RaiseFor(error, query) == [kind |-> "raise", error |-> error, query |-> query]

Outcome(it, req, res) == [item |-> it, request |-> req, result |-> res]

------------------------------------------------------------------------------
(* Table: put and update                                                    *)

\* The PutItem request Table.put builds for the item and the condition.
put_query(it, condition) ==
    LET base == [kind |-> "PutItem", TableName |-> TableName,
                 Item |-> ItemExtract(it)]
        withCondition == [kind |-> "PutItem", TableName |-> TableName,
                          Item |-> ItemExtract(it),
                          ConditionExpression |-> ConditionStr(condition)]
        withValues == [kind |-> "PutItem", TableName |-> TableName,
                       Item |-> ItemExtract(it),
                       ConditionExpression |-> ConditionStr(condition),
                       ExpressionAttributeValues |-> ConditionValues(condition)]
    IN  IF condition = NoCondition THEN base
        ELSE IF DOMAIN ConditionValues(condition) = {} THEN withCondition
        ELSE withValues

\* What the check of the item's class at the head of Table.put raises: the
\* ValueError is constructed and dropped, so nothing, whatever the item.
put_item_check(it) ==
    IF ~isinstance(it, _item_class)
    THEN [kind |-> "none", constructed |-> "ValueError"]
    ELSE NoResult

\* put with the condition failure handled like any other rejection.
put_raising_on_condition_failure(it, condition, resp) ==
    LET query == put_query(it, condition)
    IN  IF put_item_check(it).kind = "raise"
        THEN Outcome(it, NoRequest, put_item_check(it))
        ELSE
        CASE resp.kind = "ClientError" ->
                Outcome(it, query, Raise("PutItemError"))
          [] resp.kind = "ParamValidationError" ->
                Outcome(it, query, Raise("PutItemError"))
          [] resp.kind = "response" ->
                LET success == resp.status = 200
                IN  Outcome(IF success THEN _commit(it) ELSE it,
                            query, Return(success))

\* Table.put(item, condition), answered by resp.
put(it, condition, resp) ==
    LET query == put_query(it, condition)
    IN  IF put_item_check(it).kind = "raise"
        THEN Outcome(it, NoRequest, put_item_check(it))
        ELSE
        CASE resp.kind = "ClientError" ->
                IF resp.code = "ConditionalCheckFailedException"
                THEN Outcome(it, query, Return(FALSE))
                ELSE Outcome(it, query, Raise("PutItemError"))
          [] resp.kind = "ParamValidationError" ->
                Outcome(it, query, Raise("PutItemError"))
          [] resp.kind = "response" ->
                LET success == resp.status = 200
                IN  Outcome(IF success THEN _commit(it) ELSE it,
                            query, Return(success))

\* The changes of the log keyed by attribute name, as a dict comprehension
\* builds them: one entry per name, at the place of the name's first change,
\* holding the name's last change.
Changes(log) ==
    LET lastOf(name) ==
            log[CHOOSE i \in 1..Len(log) :
                    /\ log[i].attribute = name
                    /\ \A j \in 1..Len(log) : log[j].attribute = name => j <= i]
        first(i) == \A j \in 1..(i - 1) : log[j].attribute # log[i].attribute
        RECURSIVE upto(_)
        upto(i) == IF i = 0 THEN <<>>
                   ELSE IF first(i)
                        THEN Append(upto(i - 1), lastOf(log[i].attribute))
                        ELSE upto(i - 1)
    IN  upto(Len(log))

\* ','.join(fields), as tokens.
RECURSIVE Join(_)
Join(fields) ==
    IF Len(fields) <= 1 THEN fields
    ELSE Join(SubSeq(fields, 1, Len(fields) - 1))
            \o <<",", fields[Len(fields)]>>

\* ','.join(name + ' = :' + name for each field), as tokens.
RECURSIVE JoinAssignments(_)
JoinAssignments(fields) ==
    IF fields = <<>> THEN <<>>
    ELSE LET n == Len(fields)
             assignment == <<fields[n], "=", Placeholder(fields[n])>>
         IN  IF n = 1 THEN assignment
             ELSE JoinAssignments(SubSeq(fields, 1, n - 1))
                    \o <<",">> \o assignment

\* The names of the changes of these types, in order.
FieldsOf(changes, types) ==
    LET picked == SelectSeq(changes, LAMBDA c : c.type \in types)
    IN  [i \in 1..Len(picked) |-> picked[i].attribute]

\* The DELETE clause, rendered when there are fields to delete.
DeleteClause(set_fields, delete_fields) ==
    IF delete_fields # <<>> THEN <<"DELETE">> \o Join(set_fields) ELSE <<>>

\* Table._generate_update_expression(item): the update expression, as the
\* sequence of its tokens, and the placeholder values.
_generate_update_expression(it) ==
    LET changes == Changes(it.log)
        set_fields == FieldsOf(changes, {ChangeCHANGE, ChangeSET})
        delete_fields == FieldsOf(changes, {ChangeUNSET})
        setChanges == SelectSeq(changes,
                        LAMBDA c : c.type \in {ChangeCHANGE, ChangeSET})
        attribute_values ==
            [k \in {Placeholder(set_fields[i]) : i \in 1..Len(set_fields)} |->
                LET i == CHOOSE j \in 1..Len(set_fields) :
                            Placeholder(set_fields[j]) = k
                IN  extract(setChanges[i].value)]
        setClause == IF set_fields # <<>>
                     THEN <<"SET">> \o JoinAssignments(set_fields)
                     ELSE <<>>
    IN  [update_expression |->
            setClause \o DeleteClause(set_fields, delete_fields),
         attribute_values |-> attribute_values]

\* Table._get_key_expression(item)
_get_key_expression(it) ==
    _serialize_item(
        [k \in {partition_key} \cup (IF sort_key # None THEN {sort_key} ELSE {})
            |-> it.values[k]])

\* The UpdateItem request Table.update builds for a dirty item.
update_query(it) ==
    LET expression == _generate_update_expression(it)
    IN  [kind |-> "UpdateItem", TableName |-> TableName,
         Key |-> _get_key_expression(it),
         UpdateExpression |-> expression.update_expression,
         ExpressionAttributeValues |-> expression.attribute_values]

\* What update does once it has decided to write. A ClientError ends in
\* `raise ... from error` with error a dict, and that raise statement
\* itself fails with TypeError.
UpdateWritten(it, resp) ==
    CASE resp.kind = "ClientError" ->
            Outcome(it, update_query(it), Raise("TypeError"))
      [] resp.kind = "ParamValidationError" ->
            Outcome(it, update_query(it), Raise("ParamValidationError"))
      [] resp.kind = "response" ->
            LET success == resp.status = 200
            IN  Outcome(IF success THEN _commit(it) ELSE it,
                        update_query(it), Return(success))

\* update without the early return for a clean item.
update_without_clean_check(it, resp) ==
    IF _state(it) = StateNEW
    THEN Outcome(it, NoRequest, Raise("UpdateItemError"))
    ELSE UpdateWritten(it, resp)

\* update without the check for a new item.
update_without_new_check(it, resp) ==
    IF _state(it) = StateCLEAN
    THEN Outcome(it, NoRequest, Return(FALSE))
    ELSE UpdateWritten(it, resp)

\* update that reports success without committing the item.
update_without_commit(it, resp) ==
    IF _state(it) = StateCLEAN
    THEN Outcome(it, NoRequest, Return(FALSE))
    ELSE IF _state(it) = StateNEW
    THEN Outcome(it, NoRequest, Raise("UpdateItemError"))
    ELSE IF resp.kind = "response"
    THEN Outcome(it, update_query(it), Return(resp.status = 200))
    ELSE UpdateWritten(it, resp)

\* Table.update(item), answered by resp when it reaches the store.
update(it, resp) ==
    IF _state(it) = StateCLEAN
    THEN Outcome(it, NoRequest, Return(FALSE))
    ELSE IF _state(it) = StateNEW
    THEN Outcome(it, NoRequest, Raise("UpdateItemError"))
    ELSE UpdateWritten(it, resp)

------------------------------------------------------------------------------
(* Table: get                                                               *)

\* A response to GetItem that holds this row.
Found(row) == [kind |-> "response", status |-> 200, Item |-> row]

\* TypeDeserializer().deserialize of a wire value.
_deserialize_value(wire) == IF wire.tag = "NULL" THEN None ELSE wire.val

\* Item.hydrate of a store row: attributes absent from the row stay unset.
ItemHydrate(row) ==
    hydrate([a \in AttributeNames |->
                IF a \in DOMAIN row THEN _deserialize_value(row[a]) ELSE None])

\* The key map Table.get builds from its positional keys.
key_query(keys) ==
    [k \in {partition_key} \cup (IF Len(keys) > 1 THEN {sort_key} ELSE {}) |->
        IF k = partition_key THEN keys[1] ELSE keys[2]]

\* get whose not-found error carries the partition key alone.
get_not_found_without_sort_key(keys, resp) ==
    LET query == [kind |-> "GetItem", TableName |-> TableName,
                  ProjectionExpression |-> Attributes,
                  Key |-> _serialize_item(key_query(keys))]
    IN  IF resp.kind = "ClientError"
        THEN [request |-> query,
              result |-> RaiseFor("QueryError", key_query(keys))]
        ELSE IF "Item" \notin DOMAIN resp
        THEN [request |-> query,
              result |-> RaiseFor("ItemNotFoundError",
                                  key_query(<<keys[1]>>))]
        ELSE [request |-> query, result |-> Return(ItemHydrate(resp.Item))]

\* Table.get(*keys), answered by resp: the request made, and the item
\* returned or the error raised.
get(keys, resp) ==
    LET query == [kind |-> "GetItem", TableName |-> TableName,
                  ProjectionExpression |-> Attributes,
                  Key |-> _serialize_item(key_query(keys))]
    IN  IF resp.kind = "ClientError"
        THEN [request |-> query,
              result |-> RaiseFor("QueryError", key_query(keys))]
        ELSE IF "Item" \notin DOMAIN resp
        THEN [request |-> query,
              result |-> RaiseFor("ItemNotFoundError", key_query(keys))]
        ELSE [request |-> query, result |-> Return(ItemHydrate(resp.Item))]

------------------------------------------------------------------------------
(* Table: index resolution and query                                        *)

QueryError(message) ==
    [kind |-> "raise", error |-> "QueryError", message |-> message]

\* `x in attributes` of a list.
InList(x, attributes) == \E i \in 1..Len(attributes) : attributes[i] = x

\* The loop without the early return for an index whose partition key is
\* the first attribute.
RECURSIVE MatchIndexes_without_preference(_, _, _)
MatchIndexes_without_preference(attributes, i, matched_indexes) ==
    IF i > Len(indexes)
    THEN IF matched_indexes = <<>>
         THEN QueryError("No GSI/LSI index defined")
         ELSE Return(matched_indexes[1])
    ELSE LET index == indexes[i]
         IN  IF \/ ~InList(index.partition_key, attributes)
                \/ ~InList(index.sort_key, attributes)
             THEN MatchIndexes_without_preference(attributes, i + 1,
                                                  matched_indexes)
             ELSE MatchIndexes_without_preference(attributes, i + 1,
                                    Append(matched_indexes, index))

\* The loop of Table._hint_index_for_attributes over the indexes from the
\* i-th on, for two attributes, with the candidates matched so far.
RECURSIVE MatchIndexes(_, _, _)
MatchIndexes(attributes, i, matched_indexes) ==
    IF i > Len(indexes)
    THEN IF matched_indexes = <<>>
         THEN QueryError("No GSI/LSI index defined")
         ELSE Return(matched_indexes[1])
    ELSE LET index == indexes[i]
         IN  IF \/ ~InList(index.partition_key, attributes)
                \/ ~InList(index.sort_key, attributes)
             THEN MatchIndexes(attributes, i + 1, matched_indexes)
             ELSE IF attributes[1] = index.partition_key
             THEN Return(index)
             ELSE MatchIndexes(attributes, i + 1,
                               Append(matched_indexes, index))

\* A resolution that returns the last index, in declaration order, whose
\* partition key is the single attribute.
_hint_index_for_attributes_last_match(attributes) ==
    IF Len(attributes) = 1
    THEN LET matching == {i \in 1..Len(indexes) :
                            indexes[i].partition_key = attributes[1]}
         IN  IF matching = {}
             THEN QueryError("No GSI index defined")
             ELSE Return(indexes[CHOOSE i \in matching :
                                    \A j \in matching : j <= i])
    ELSE MatchIndexes(attributes, 1, <<>>)

\* Table._hint_index_for_attributes(attributes): the index, or the error.
_hint_index_for_attributes(attributes) ==
    IF Len(attributes) = 1
    THEN LET matching == {i \in 1..Len(indexes) :
                            indexes[i].partition_key = attributes[1]}
         IN  IF matching = {}
             THEN QueryError("No GSI index defined")
             ELSE Return(indexes[CHOOSE i \in matching :
                                    \A j \in matching : i <= j])
    ELSE MatchIndexes(attributes, 1, <<>>)

\* The use_index argument: None, an index name, or an Index.
NoIndex == [kind |-> "None"]

ByName(name) == [kind |-> "str", name |-> name]

ByIndex(index) == [kind |-> "Index", index |-> index]

\* `if use_index:`: None and the empty string are false.
Truthy(use_index) ==
    /\ use_index.kind # "None"
    /\ ~(use_index.kind = "str" /\ use_index.name = "")

\* {**a, **b}
MergeValues(a, b) ==
    [k \in DOMAIN a \cup DOMAIN b |-> IF k \in DOMAIN b THEN b[k] ELSE a[k]]

\* The index Table.query hints, or the error it raises finding it.
hint_index(key_attributes, use_index) ==
    IF Truthy(use_index)
    THEN IF use_index.kind = "str"
         THEN IF use_index.name \notin IndexNames
              THEN QueryError("Used unknown index")
              ELSE Return(IndexNamed(use_index.name))
         ELSE Return(use_index.index)
    ELSE _hint_index_for_attributes(key_attributes)

\* The Query request Table.query builds once the index is known.
build_query(key_condition, filter_condition, limit, index, consistent_read) ==
    LET base == [kind |-> "Query", TableName |-> TableName,
                 Select |-> "SPECIFIC_ATTRIBUTES",
                 KeyConditionExpression |-> ConditionStr(key_condition),
                 ExpressionAttributeValues |->
                    IF filter_condition # NoCondition
                    THEN MergeValues(ConditionValues(key_condition),
                                     ConditionValues(filter_condition))
                    ELSE ConditionValues(key_condition),
                 ProjectionExpression |-> Attributes,
                 ConsistentRead |-> consistent_read]
        indexName == IF index.name # _PRIMARY_KEY_NAME
                     THEN "IndexName" :> index.name ELSE <<>>
        filter == IF filter_condition # NoCondition
                  THEN "FilterExpression" :> ConditionStr(filter_condition)
                  ELSE <<>>
        limited == IF limit # 0 THEN "Limit" :> limit ELSE <<>>
    IN  base @@ indexName @@ filter @@ limited

\* Table.query(key_condition, filter_condition, limit, use_index,
\* consistent_read): the Cursor returned, or the error raised.
query(key_condition, filter_condition, limit, use_index, consistent_read) ==
    LET key_condition_expression == ConditionStr(key_condition)
        key_attributes == ConditionAttributes(key_condition)
        hint == hint_index(key_attributes, use_index)
    IN  IF Len(key_attributes) > 2
        THEN QueryError("too many attributes in key_condition.")
        ELSE IF \/ In(CONDITION_LOGICAL_OR, key_condition_expression)
                \/ In(CONDITION_FUNCTION_CONTAINS, key_condition_expression)
        THEN QueryError("used operator is not supported.")
        ELSE IF hint.kind = "raise" THEN hint
        ELSE Return([query |-> build_query(key_condition, filter_condition,
                                limit, hint.value, consistent_read)])

------------------------------------------------------------------------------
(* The caller: writing, putting, updating and getting an item               *)

\* The values a caller constructs a Track with.
NewValues ==
    {[a \in AttributeNames |->
        CASE a = "album_name" -> album
          [] a = "genre_name" -> genre
          [] a = "ORIGIN" -> None
          [] OTHER -> "v1"] :
     album \in {"v1", None}, genre \in {"v1"}}

\* The values a caller constructs an item of the other class with.
OtherValues == {values \in NewValues : values["album_name"] = "v1"}

\* The conditions a caller puts with.
PutConditions ==
    {NoCondition,
     <<Part("", "not_exists", "artist_name", None)>>,
     <<Part("", "=", "album_name", "v1")>>}

\* The keys a caller gets with: the partition key alone, or both keys.
GetKeys == {<<"v1">>, <<"v1", "v2">>}

\* The rows the store holds under a full key.
Rows(keys) ==
    {_serialize_item([a \in {"artist_name", "track_name", "album_name",
                             "genre_name"} |->
                        CASE a = "artist_name" -> keys[1]
                          [] a = "track_name" -> keys[2]
                          [] a = "album_name" -> album
                          [] a = "genre_name" -> "v1"]) :
     album \in {"v2"}}

\* What the store answers a GetItem with: a partial key is rejected, a
\* full key finds a row or none.
GetResponses(keys) ==
    IF Len(keys) = 1 /\ sort_key # None
    THEN {ClientError("ValidationException")}
    ELSE {Responded(200), ClientError("ResourceNotFoundException")}
            \cup {Found(row) : row \in Rows(keys)}

Init ==
    /\ indexes = ExampleIndexes
    /\ item \in {NewItem(values) : values \in NewValues}
                \cup {NewOtherItem(values) : values \in OtherValues}
    /\ op = "construct"
    /\ args = <<>>
    /\ pre = item
    /\ request = NoRequest
    /\ response = NoResponse
    /\ result = NoResult

\* The caller writes value to an attribute of the item (None clears it).
SetAttr(attribute, value) ==
    /\ item' \in {AppendChange(item, attribute, value),
                  ReplaceChange(item, attribute, value)}
    /\ Len(item'.log) <= MaxLog
    /\ op' = "setattr"
    /\ args' = <<attribute, value>>
    /\ pre' = item
    /\ request' = NoRequest
    /\ response' = NoResponse
    /\ result' = NoResult
    /\ UNCHANGED indexes

Put(condition, resp) ==
    LET outcome == put(item, condition, resp)
    IN  /\ item' = outcome.item
        /\ op' = "put"
        /\ args' = condition
        /\ pre' = item
        /\ request' = outcome.request
        /\ response' = resp
        /\ result' = outcome.result
        /\ UNCHANGED indexes

Update(resp) ==
    LET outcome == update(item, resp)
    IN  /\ item' = outcome.item
        /\ op' = "update"
        /\ args' = <<>>
        /\ pre' = item
        /\ request' = outcome.request
        /\ response' = IF outcome.request = NoRequest THEN NoResponse ELSE resp
        /\ result' = outcome.result
        /\ UNCHANGED indexes

\* The caller gets an item and, when one is returned, holds it from then on.
Get(keys, resp) ==
    LET outcome == get(keys, resp)
    IN  /\ item' = IF outcome.result.kind = "return"
                   THEN outcome.result.value ELSE item
        /\ op' = "get"
        /\ args' = keys
        /\ pre' = item
        /\ request' = outcome.request
        /\ response' = resp
        /\ result' = outcome.result
        /\ UNCHANGED indexes

Next ==
    \/ \E write \in Writes : SetAttr(write[1], write[2])
    \/ \E condition \in PutConditions :
        \E resp \in WriteResponses(condition # NoCondition) :
            Put(condition, resp)
    \/ \E resp \in WriteResponses(FALSE) : Update(resp)
    \/ \E keys \in GetKeys : \E resp \in GetResponses(keys) : Get(keys, resp)

Spec == Init /\ [][Next]_vars

------------------------------------------------------------------------------
(* The caller: querying a table and fetching from the cursor                *)

\* The key conditions a caller queries with: one part, two parts joined by
\* AND or OR, or three parts joined by AND.
KeyConditions ==
    {<<Part("", operator, a, "v1")>> :
        operator \in {"=", "contains"}, a \in AttributeNames}
    \cup
    {<<Part("", "=", a, "v1"), Part(join, operator, b, "v1")>> :
        a \in AttributeNames, b \in AttributeNames, join \in {"AND", "OR"},
        operator \in {"=", "begins_with", "contains"}}
    \cup
    {<<Part("", "=", a, "v1"), Part("AND", "=", b, "v1"),
       Part("AND", "=", c, "v1")>> :
        a \in {"artist_name", "track_name", "album_name"},
        b \in {"artist_name", "track_name", "album_name"},
        c \in {"artist_name", "track_name", "album_name"}}

\* The filter conditions: none, one over another attribute, one over an
\* attribute of the key condition.
FilterConditions ==
    {NoCondition,
     <<Part("", "begins_with", "genre_name", "v2")>>,
     <<Part("", "=", "artist_name", "v2")>>}

\* The index hints: none, names (empty, primary, secondary, unknown), and
\* an Index object.
UseIndexes ==
    {NoIndex, ByName(""), ByName(_PRIMARY_KEY_NAME), ByName("AlbumTrack"),
     ByName("Missing"), ByIndex(Index("AlbumTrack", "album_name", "track_name"))}

Limits == {0, 1}

\* The arguments of the calls of Table.query.
QueryArgs ==
    [key_condition : KeyConditions, filter_condition : FilterConditions,
     limit : Limits, use_index : UseIndexes, consistent_read : BOOLEAN]

\* A table over one of the index sets, and a call of query about to be made
\* with some arguments. The item plays no part in it.
InitQuery ==
    /\ indexes \in IndexConfigs
    /\ item = NewItem([a \in AttributeNames |-> None])
    /\ op = "call"
    /\ args \in QueryArgs
    /\ pre = item
    /\ request = NoRequest
    /\ response = NoResponse
    /\ result = NoResult

\* Table.query with the arguments: no call to the store is made until the
\* cursor is read.
Query ==
    /\ op = "call"
    /\ op' = "query"
    /\ result' = query(args.key_condition, args.filter_condition, args.limit,
                       args.use_index, args.consistent_read)
    /\ UNCHANGED <<indexes, item, args, pre, request, response>>

\* The caller reads the cursor the query returned: the cursor sends its query.
Fetch(resp) ==
    /\ op = "query"
    /\ result.kind = "return"
    /\ op' = "fetch"
    /\ request' = result.value.query
    /\ response' = resp
    /\ UNCHANGED <<indexes, item, args, pre, result>>

NextQuery ==
    \/ Query
    \/ \E resp \in {Responded(200), ClientError("ValidationException")} :
            Fetch(resp)

SpecQuery == InitQuery /\ [][NextQuery]_vars

------------------------------------------------------------------------------
(* AttributeType: the wire type of a declared Python type                   *)

\* The deepest nesting of type arguments in the declared types of the model.
MaxDepth == 2

TYPE_STRING == "S"
TYPE_NUMBER == "N"
TYPE_BOOLEAN == "BOOL"
TYPE_BINARY == "B"
TYPE_NULL == "NULL"
TYPE_LIST == "L"
TYPE_MAP == "M"
TYPE_NUMBER_SET == "NS"
TYPE_STRING_SET == "SS"
TYPE_BINARY_SET == "BS"

\* The types that are looked up directly, by name.
_SUPPORTED_BASE_TYPES ==
    [t \in {"str", "AnyStr", "datetime", "date", "time"} |-> TYPE_STRING]
    @@ [t \in {"Decimal", "int", "float"} |-> TYPE_NUMBER]
    @@ [t \in {"list", "List", "Sequence", "set", "Set", "frozenset",
               "FrozenSet", "tuple", "Tuple"} |-> TYPE_LIST]
    @@ [t \in {"dict", "Dict", "Mapping", "TypedDict"} |-> TYPE_MAP]
    @@ [t \in {"NoneType"} |-> TYPE_NULL]
    @@ [t \in {"bytes", "bytearray"} |-> TYPE_BINARY]
    @@ [t \in {"bool"} |-> TYPE_BOOLEAN]

\* The origins of the parameterised types that are supported.
_SUPPORTED_GENERIC_TYPES ==
    [t \in {"list", "tuple", "set", "frozenset"} |-> TYPE_LIST]
    @@ [t \in {"dict"} |-> TYPE_MAP]

\* A class or a bare typing alias, a dataclass, a parameterised alias.
Class(name) == [tag |-> "class", name |-> name]

Dataclass(name) == [tag |-> "dataclass", name |-> name]

Generic(name, type_args) ==
    [tag |-> "generic", name |-> name, type_args |-> type_args]

\* The aliases that take a type argument, and the classes that are no keys
\* of the table of base types.
GenericNames == {"List", "Tuple", "Set", "FrozenSet", "Dict", "Optional"}

PlainTypes ==
    {Class(name) : name \in DOMAIN _SUPPORTED_BASE_TYPES \cup {"complex"}}
    \cup {Dataclass("Track")}

\* Dict[str, t] and Optional[t] have two arguments, the others one.
Parameterised(name, t) ==
    CASE name = "Dict" -> Generic(name, <<Class("str"), t>>)
      [] name = "Optional" -> Generic(name, <<t, Class("NoneType")>>)
      [] OTHER -> Generic(name, <<t>>)

RECURSIVE TypesOfDepth(_)
TypesOfDepth(depth) ==
    IF depth = 0
    THEN PlainTypes
    ELSE LET inner == TypesOfDepth(depth - 1)
         IN  inner \cup {Parameterised(name, t) :
                            name \in GenericNames, t \in inner}

\* chili's is_dataclass, get_origin_type and get_type_args.
is_dataclass(value_type) == value_type.tag = "dataclass"

get_origin_type(value_type) ==
    IF value_type.tag # "generic"
    THEN None
    ELSE CASE value_type.name = "List" -> "list"
           [] value_type.name = "Tuple" -> "tuple"
           [] value_type.name = "Set" -> "set"
           [] value_type.name = "FrozenSet" -> "frozenset"
           [] value_type.name = "Dict" -> "dict"
           [] value_type.name = "Optional" -> "Union"

get_type_args(value_type) == value_type.type_args

\* AttributeType.from_python_type(value_type): the AttributeType returned, or
\* TypeError raised.
RECURSIVE from_python_type(_)
from_python_type(value_type) ==
    IF value_type.tag = "class" /\ value_type.name \in DOMAIN _SUPPORTED_BASE_TYPES
    THEN Return(_SUPPORTED_BASE_TYPES[value_type.name])
    ELSE IF is_dataclass(value_type)
    THEN Return(TYPE_MAP)
    ELSE LET origin_type == get_origin_type(value_type)
         IN  IF origin_type \notin DOMAIN _SUPPORTED_GENERIC_TYPES
             THEN Raise("TypeError")
             ELSE IF origin_type \in {"set", "frozenset"}
             THEN LET value_subtype == get_type_args(value_type)[1]
                      mapped_type == from_python_type(value_subtype)
                  IN  IF mapped_type.kind = "raise"
                      THEN mapped_type
                      ELSE IF mapped_type.value = TYPE_STRING
                      THEN Return(TYPE_STRING_SET)
                      ELSE IF mapped_type.value = TYPE_NUMBER
                      THEN Return(TYPE_NUMBER_SET)
                      ELSE IF mapped_type.value = TYPE_BINARY
                      THEN Return(TYPE_BINARY_SET)
                      ELSE Return(_SUPPORTED_GENERIC_TYPES[origin_type])
             ELSE Return(_SUPPORTED_GENERIC_TYPES[origin_type])

\* The declared types a schema is registered with.
ValueTypes == TypesOfDepth(MaxDepth)

InitTypes ==
    /\ indexes = ExampleIndexes
    /\ item = NewItem([a \in AttributeNames |-> None])
    /\ op = "call"
    /\ args \in ValueTypes
    /\ pre = item
    /\ request = NoRequest
    /\ response = NoResponse
    /\ result = NoResult

FromPythonType ==
    /\ op = "call"
    /\ op' = "from_python_type"
    /\ result' = from_python_type(args)
    /\ UNCHANGED <<indexes, item, args, pre, request, response>>

NextTypes == FromPythonType

SpecTypes == InitTypes /\ [][NextTypes]_vars

------------------------------------------------------------------------------
(* Properties of put, update and get                                        *)

\* C1: update of an item that is CLEAN with an empty log returns false,
\* makes no call to the store, and leaves the item CLEAN with an empty log.
C1_UpdateOfCleanItemIsNoOp ==
    (op = "update" /\ _state(pre) = StateCLEAN /\ pre.log = <<>>) =>
        /\ result = Return(FALSE)
        /\ request = NoRequest
        /\ _state(item) = StateCLEAN
        /\ item.log = <<>>

C1_Witness ==
    /\ op = "update"
    /\ _state(pre) = StateCLEAN
    /\ pre.log = <<>>
    /\ result = Return(FALSE)

\* C2: a put or an update that the store confirms with status 200 returns
\* true and leaves the item CLEAN with an empty log, and an update that
\* follows it at once returns false without a call to the store.
C2_ConfirmedWriteCommits ==
    [][ /\ (op' \in {"put", "update"} /\ response' = Responded(200)) =>
            /\ result' = Return(TRUE)
            /\ _state(item') = StateCLEAN
            /\ item'.log = <<>>
        /\ (op \in {"put", "update"} /\ response = Responded(200)
                /\ op' = "update") =>
            /\ result' = Return(FALSE)
            /\ request' = NoRequest ]_vars

C2_Witness ==
    /\ op = "update"
    /\ response = Responded(200)
    /\ _state(pre) = StateDIRTY
    /\ result = Return(TRUE)
    /\ _state(item) = StateCLEAN

\* C3: update of a NEW item, with or without pending changes, raises
\* UpdateItemError, makes no call to the store and leaves the item as it was.
C3_UpdateOfNewItemRaises ==
    (op = "update" /\ _state(pre) = StateNEW) =>
        /\ result = Raise("UpdateItemError")
        /\ request = NoRequest
        /\ item = pre

C3_Witness ==
    /\ op = "update"
    /\ _state(pre) = StateNEW
    /\ pre.log # <<>>
    /\ result = Raise("UpdateItemError")

\* C6: a put rejected because its condition check failed returns false and
\* leaves the item as it was; a put rejected for any other reason raises
\* PutItemError.
C6_PutConditionFailureReturnsFalse ==
    (op = "put" /\ response.kind = "ClientError") =>
        /\ item = pre
        /\ IF response.code = "ConditionalCheckFailedException"
           THEN result = Return(FALSE)
           ELSE result = Raise("PutItemError")

C6_Witness ==
    /\ op = "put"
    /\ response = ClientError("ConditionalCheckFailedException")
    /\ pre.log # <<>>
    /\ result = Return(FALSE)
    /\ item.log # <<>>

\* C7: an update whose write the store rejects raises UpdateItemError, and
\* leaves the item as it was.
C7_UpdateRejectionRaisesUpdateError ==
    (op = "update" /\ response.kind = "ClientError") =>
        /\ result = Raise("UpdateItemError")
        /\ item = pre

\* C8: get(pk, sk) looks up the key that maps the partition key to pk and
\* the sort key to sk; when the response holds no item it raises
\* ItemNotFoundError carrying that key map, and returns no item.
C8_GetNotFoundCarriesKey ==
    (op = "get" /\ Len(args) = 2) =>
        LET attempted == (partition_key :> args[1]) @@ (sort_key :> args[2])
        IN  /\ request.kind = "GetItem"
            /\ request.Key = (partition_key :> [tag |-> "S", val |-> args[1]])
                                @@ (sort_key :> [tag |-> "S", val |-> args[2]])
            /\ (response.kind = "response" /\ "Item" \notin DOMAIN response) =>
                    /\ result = RaiseFor("ItemNotFoundError", attempted)
                    /\ item = pre

C8_Witness ==
    /\ op = "get"
    /\ Len(args) = 2
    /\ response = Responded(200)
    /\ result.kind = "raise"
    /\ result.error = "ItemNotFoundError"

------------------------------------------------------------------------------
(* Properties of the update expression                                      *)

\* Where the DELETE clause of an update expression starts: the place of its
\* DELETE keyword, or past the end when it has none.
DeleteAt(expression) ==
    IF \E i \in 1..Len(expression) : expression[i] = "DELETE"
    THEN CHOOSE i \in 1..Len(expression) : expression[i] = "DELETE"
    ELSE Len(expression) + 1

\* The attribute names the SET clause assigns: `name = :name`.
SetClauseNames(expression) ==
    {expression[i] : i \in {j \in 1..(DeleteAt(expression) - 1) :
                                /\ j < Len(expression)
                                /\ expression[j + 1] = "="}}

\* The attribute names the DELETE clause lists.
DeleteClauseNames(expression) ==
    {expression[i] : i \in {j \in (DeleteAt(expression) + 1)..Len(expression) :
                                expression[j] # ","}}

\* How often the expression names the attribute.
Mentions(expression, name) ==
    Cardinality({i \in 1..Len(expression) : expression[i] = name})

\* The changes the log holds for the attribute, and the latest of them.
ChangesOf(log, name) == SelectSeq(log, LAMBDA c : c.attribute = name)

Latest(log, name) == ChangesOf(log, name)[Len(ChangesOf(log, name))]

LoggedNames(log) == {log[i].attribute : i \in 1..Len(log)}

\* C4: the SET clause of the update expression holds exactly the attributes
\* whose pending change is SET or CHANGE, its DELETE clause exactly those
\* whose pending change is UNSET.
C4_SetAndDeleteClauses ==
    (op = "update" /\ request.kind = "UpdateItem") =>
        /\ SetClauseNames(request.UpdateExpression) =
                {name \in LoggedNames(pre.log) :
                    Latest(pre.log, name).type \in {ChangeSET, ChangeCHANGE}}
        /\ DeleteClauseNames(request.UpdateExpression) =
                {name \in LoggedNames(pre.log) :
                    Latest(pre.log, name).type = ChangeUNSET}

\* C5: an attribute written several times before the commit is named once
\* in the update expression, with the kind and value of its latest write: a
\* cleared attribute in the DELETE clause only and without a placeholder
\* value, any other in the SET clause only, with the latest value.
C5_LatestWriteWins ==
    (op = "update" /\ request.kind = "UpdateItem") =>
        \A name \in LoggedNames(pre.log) :
            Len(ChangesOf(pre.log, name)) > 1 =>
                LET expression == request.UpdateExpression
                    values == request.ExpressionAttributeValues
                    latest == Latest(pre.log, name)
                IN  /\ Mentions(expression, name) = 1
                    /\ IF latest.type = ChangeUNSET
                       THEN /\ name \in DeleteClauseNames(expression)
                            /\ name \notin SetClauseNames(expression)
                            /\ Placeholder(name) \notin DOMAIN values
                       ELSE /\ name \in SetClauseNames(expression)
                            /\ name \notin DeleteClauseNames(expression)
                            /\ Placeholder(name) \in DOMAIN values
                            /\ values[Placeholder(name)] =
                                    [tag |-> "S", val |-> latest.value]

------------------------------------------------------------------------------
(* Properties of query                                                      *)

\* The attributes a condition references, whether it joins parts with OR,
\* and whether it calls contains.
Referenced(condition) ==
    {condition[i].attribute : i \in 1..Len(condition)}

UsesOr(condition) == \E i \in 1..Len(condition) : condition[i].join = "OR"

UsesContains(condition) ==
    \E i \in 1..Len(condition) : condition[i].op = "contains"

\* The query was rejected for its number of attributes or for its operators.
RejectedByKeyConditionChecks ==
    /\ result.kind = "raise"
    /\ result.message \in {"too many attributes in key_condition.",
                           "used operator is not supported."}

\* C9: query raises QueryError and returns no cursor when the key condition
\* references more than 2 attributes or uses OR or contains; a key condition
\* over at most 2 attributes that uses neither is not rejected by these
\* checks.
C9_KeyConditionChecks ==
    (op = "query") =>
        IF \/ Cardinality(Referenced(args.key_condition)) > 2
           \/ UsesOr(args.key_condition)
           \/ UsesContains(args.key_condition)
        THEN /\ result.kind = "raise"
             /\ result.error = "QueryError"
             /\ request = NoRequest
        ELSE ~RejectedByKeyConditionChecks

\* The name of the index a returned cursor queries.
ResolvedName(cursor) ==
    IF "IndexName" \in DOMAIN cursor.query
    THEN cursor.query.IndexName
    ELSE _PRIMARY_KEY_NAME

\* The places, in declaration order, of the indexes whose partition key and
\* sort key are both among the attributes.
Candidates(attributes) ==
    {i \in 1..Len(indexes) :
        /\ indexes[i].partition_key \in {attributes[1], attributes[2]}
        /\ indexes[i].sort_key \in {attributes[1], attributes[2]}}

\* Those of them whose partition key is the first attribute.
Preferred(attributes) ==
    {i \in Candidates(attributes) : indexes[i].partition_key = attributes[1]}

\* A query without index hint whose key condition names two attributes and
\* passes the checks of the key condition.
ResolvesTwoAttributes ==
    /\ op = "query"
    /\ ~Truthy(args.use_index)
    /\ Len(ConditionAttributes(args.key_condition)) = 2
    /\ ~RejectedByKeyConditionChecks

\* C10: for a key condition over two attributes, the index resolved is a
\* candidate whose partition key is the first attribute when there is one,
\* otherwise the first candidate in declaration order; without candidates
\* QueryError is raised.
C10_TwoAttributeResolution ==
    ResolvesTwoAttributes =>
        LET attributes == ConditionAttributes(args.key_condition)
            candidates == Candidates(attributes)
            preferred == Preferred(attributes)
        IN  IF candidates = {}
            THEN result.kind = "raise" /\ result.error = "QueryError"
            ELSE /\ result.kind = "return"
                 /\ IF preferred # {}
                    THEN \E i \in preferred :
                            ResolvedName(result.value) = indexes[i].name
                    ELSE \E i \in candidates :
                            /\ \A j \in candidates : i <= j
                            /\ ResolvedName(result.value) = indexes[i].name

\* A candidate whose partition key is the first attribute is resolved though
\* another candidate is declared before it.
C10_Witness ==
    /\ ResolvesTwoAttributes
    /\ result.kind = "return"
    /\ LET attributes == ConditionAttributes(args.key_condition)
       IN  \E i \in Preferred(attributes) :
            /\ ResolvedName(result.value) = indexes[i].name
            /\ \E j \in Candidates(attributes) : j < i

\* The places, in declaration order, of the indexes whose partition key is
\* the single attribute of the key condition.
Matching(attributes) ==
    {i \in 1..Len(indexes) : indexes[i].partition_key = attributes[1]}

\* A query without index hint whose key condition names one attribute and
\* passes the checks of the key condition.
ResolvesOneAttribute ==
    /\ op = "query"
    /\ ~Truthy(args.use_index)
    /\ Len(ConditionAttributes(args.key_condition)) = 1
    /\ ~RejectedByKeyConditionChecks

\* C11 as stated: for a key condition over one attribute, the index resolved
\* is the unique index whose partition key is that attribute, and QueryError
\* is raised when no index has that partition key.
C11_UniqueIndexResolved ==
    ResolvesOneAttribute =>
        LET matching == Matching(ConditionAttributes(args.key_condition))
        IN  IF matching = {}
            THEN result.kind = "raise" /\ result.error = "QueryError"
            ELSE /\ result.kind = "return"
                 /\ Cardinality(matching) = 1
                 /\ \E i \in matching :
                        ResolvedName(result.value) = indexes[i].name

\* C11: for a key condition over one attribute, the index resolved is the
\* first index in declaration order whose partition key is that attribute
\* (several indexes may share it), and QueryError is raised when no index has
\* that partition key; the partition key of the index resolved is never
\* another attribute.
C11_FirstMatchingIndexResolved ==
    ResolvesOneAttribute =>
        LET matching == Matching(ConditionAttributes(args.key_condition))
        IN  IF matching = {}
            THEN result.kind = "raise" /\ result.error = "QueryError"
            ELSE /\ result.kind = "return"
                 /\ \E i \in matching :
                        /\ \A j \in matching : i <= j
                        /\ ResolvedName(result.value) = indexes[i].name
                 /\ \A i \in 1..Len(indexes) :
                        ResolvedName(result.value) = indexes[i].name
                            => i \in matching

\* The first of several indexes sharing the partition key is resolved.
C11_Witness ==
    /\ ResolvesOneAttribute
    /\ result.kind = "return"
    /\ LET matching == Matching(ConditionAttributes(args.key_condition))
       IN  /\ Cardinality(matching) > 1
           /\ \E i \in matching :
                /\ \A j \in matching : i <= j
                /\ ResolvedName(result.value) = indexes[i].name

\* No index has the single attribute as its partition key: QueryError.
C11_WitnessNoIndex ==
    /\ ResolvesOneAttribute
    /\ Matching(ConditionAttributes(args.key_condition)) = {}
    /\ result.kind = "raise"

\* C12: the request Table.query builds keeps every value of the key condition
\* and of the filter condition under its placeholder: when the two conditions
\* give one placeholder two different values, no request is built with one of
\* them overwritten by the other.
C12_MergeDropsNoValue ==
    (/\ op \in {"query", "fetch"}
     /\ result.kind = "return"
     /\ args.filter_condition # NoCondition) =>
        LET key_values == ConditionValues(args.key_condition)
            filter_values == ConditionValues(args.filter_condition)
            sent == result.value.query.ExpressionAttributeValues
        IN  /\ \A k \in DOMAIN key_values : sent[k] = key_values[k]
            /\ \A k \in DOMAIN filter_values : sent[k] = filter_values[k]

------------------------------------------------------------------------------
(* Properties of AttributeType                                              *)

\* A set or frozenset with an element type was resolved.
ResolvedSetType ==
    /\ op = "from_python_type"
    /\ get_origin_type(args) \in {"set", "frozenset"}

\* C13: a set or frozenset type resolves to STRING_SET, NUMBER_SET or
\* BINARY_SET when its element type resolves to STRING, NUMBER or BINARY, and
\* raises TypeError for any other element type; the type returned for a set
\* or frozenset is never another than these three.
C13_SetTypesByElement ==
    ResolvedSetType =>
        LET element == from_python_type(get_type_args(args)[1])
        IN  IF element = Return(TYPE_STRING)
            THEN result = Return(TYPE_STRING_SET)
            ELSE IF element = Return(TYPE_NUMBER)
            THEN result = Return(TYPE_NUMBER_SET)
            ELSE IF element = Return(TYPE_BINARY)
            THEN result = Return(TYPE_BINARY_SET)
            ELSE result = Raise("TypeError")

------------------------------------------------------------------------------
(* Properties of put: the class of the item                                 *)

\* C14: put of an item that is no instance of the Item class the table is
\* bound to raises ValueError, sends no request to the store and leaves the
\* item uncommitted.
C14_PutOfForeignItemRaises ==
    (op = "put" /\ ~isinstance(pre, _item_class)) =>
        /\ result.kind = "raise"
        /\ result.error = "ValueError"
        /\ request = NoRequest
        /\ item = pre

------------------------------------------------------------------------------
(* Properties of query: the index named in the request                      *)

\* C15: the request Table.query builds carries IndexName exactly when the
\* index resolved, from the hint or from the key condition, is not the
\* primary index "#", and then it is the name of that index; a hint that is
\* a string but not the name of a registered index raises QueryError and no
\* request is built.
C15_IndexNameIffSecondary ==
    op = "query" =>
        /\ result.kind = "return" =>
                LET resolved == hint_index(
                        ConditionAttributes(args.key_condition),
                        args.use_index).value
                    sent == result.value.query
                IN  /\ "IndexName" \in DOMAIN sent
                        <=> resolved.name # _PRIMARY_KEY_NAME
                    /\ "IndexName" \in DOMAIN sent
                        => sent.IndexName = resolved.name
        /\ (args.use_index.kind = "str"
                /\ args.use_index.name \notin IndexNames) =>
                /\ result.kind = "raise"
                /\ result.error = "QueryError"

====
